---------------------------- MODULE Spec2Model ----------------------------
(***************************************************************************)
(* The Goat transaction of alloy's consensus crate: the envelope TxGoat    *)
(* (module, action, nonce, input, inner, chain_id), its RLP and bincode    *)
(* forms, the dispatcher decode_goat_tx and the six fixed-offset payload   *)
(* decoders of goat_types.                                                 *)
(*                                                                         *)
(* Bytes are the integers 0..255 and a buffer is a sequence of bytes.  A   *)
(* Rust range buf[a..b] is Slice(buf, a, b).  Unsigned integers wider than *)
(* a byte (u32, u64, U256) are kept as little-endian sequences of 16-bit   *)
(* limbs, which is what from_be_bytes produces from big-endian bytes; the  *)
(* nonce is a u64 of four such limbs.                                      *)
(***************************************************************************)
EXTENDS Integers, Sequences, FiniteSets, TLC

(***************************************************************************)
(* The history of the dispatcher.                                          *)
(*   calls   the latest invocations of decode_goat_tx, latest first: a      *)
(*           window of as many places as the specification starts with.    *)
(*           Each place holds the arguments of the invocation and the      *)
(*           outcome that the operation which made it returned.            *)
(***************************************************************************)
VARIABLE calls

(***************************************************************************)
(* Bounds of the input space.                                              *)
(***************************************************************************)
\* payload lengths range over SIZE - MaxDelta .. SIZE + MaxDelta (and 0)
MaxDelta == 1
\* number of position-dependent fill patterns per variant
NumPatterns == 1

(***************************************************************************)
(* goat_types/mod.rs: modules and actions.                                 *)
(***************************************************************************)
BIRDGE_MODULE == 1
LOCKING_MODULE == 2

BRIDGE_DEPOIT_ACTION == 1
BRIDGE_CANCEL2_ACTION == 2
BRIDGE_PAID_ACTION == 3
BITCOIN_NEW_BLOCK_ACTION == 4

LOCKING_COMPLETE_UNLOCK_ACTION == 1
LOCKING_DISTRIBUTE_REWARD_ACTION == 2

\* goat.rs
GOAT_CHAIN_ID == 2345
GOAT_TESTNET_CHAIN_ID == 48816

\* alloy_eips::eip2718::GOAT_TX_TYPE_ID is not among the sources: 0x60
GOAT_TX_TYPE_ID == 96

(***************************************************************************)
(* Selectors and sizes of the six variants.                                *)
(***************************************************************************)
DepositTx_METHOD_ID == <<144, 65, 131, 203>>
DepositTx_SIZE == 164
Cancel2Tx_METHOD_ID == <<193, 157, 211, 32>>
Cancel2Tx_SIZE == 36
PaidTx_METHOD_ID == <<182, 112, 171, 94>>
PaidTx_SIZE == 132
NewBtcBlockTx_METHOD_ID == <<148, 244, 144, 189>>
NewBtcBlockTx_SIZE == 36
CompleteUnlockTx_METHOD_ID == <<0, 171, 165, 26>>
CompleteUnlockTx_SIZE == 132
DistributeRewardTx_METHOD_ID == <<189, 159, 173, 181>>
DistributeRewardTx_SIZE == 132

(***************************************************************************)
(* goat_types/constant.rs is not among the sources.  NATIVE_TOKEN is the   *)
(* token address that test_decode_unlock_tx decodes (the zero address).    *)
(***************************************************************************)
NATIVE_TOKEN == [j \in 1..20 |-> 0]

\* the two sender roles and the three destination contracts: the sources give
\* their names and not their bytes, so each stands for itself
RELAYER_EXECUTOR == "RELAYER_EXECUTOR"
LOCKING_EXECUTOR == "LOCKING_EXECUTOR"
BITCOINT_CONTRACT == "BITCOINT_CONTRACT"
BRIDGE_CONTRACT == "BRIDGE_CONTRACT"
LOCKING_CONTRACT == "LOCKING_CONTRACT"

(***************************************************************************)
(* Primitive conversions.                                                  *)
(***************************************************************************)
\* Rust's buf[a..b]: the bytes at the 0-based positions a .. b-1
Slice(buf, a, b) == SubSeq(buf, a + 1, b)

\* buf[a..b] panics unless a <= b <= buf.len()
InBounds(buf, a, b) == a <= b /\ b <= Len(buf)

\* u32/u64/U256::from_be_bytes: big-endian bytes to little-endian 16-bit limbs
from_be_bytes(bytes) ==
  [k \in 1..(Len(bytes) \div 2) |->
      bytes[Len(bytes) - 2 * k + 2] + 256 * bytes[Len(bytes) - 2 * k + 1]]

\* to_be_bytes: little-endian 16-bit limbs to big-endian bytes
to_be_bytes(limbs) ==
  [j \in 1..(2 * Len(limbs)) |->
      LET d == 2 * Len(limbs) - j
      IN  IF d % 2 = 0 THEN limbs[d \div 2 + 1] % 256
                       ELSE limbs[d \div 2 + 1] \div 256]

\* a u64 is four little-endian 16-bit limbs; u64_from(n) is the u64 of a
\* small n
u64_from(n) == <<n % 65536, n \div 65536, 0, 0>>

\* U256::ZERO
U256_ZERO == [k \in 1..16 |-> 0]

\* U256::from(n) for a small n
U256_from(n) == [k \in 1..16 |-> IF k = 1 THEN n % 65536
                                   ELSE IF k = 2 THEN n \div 65536 ELSE 0]

\* Address::from_slice / TxHash::from_slice copy the bytes
from_slice(bytes) == bytes

(***************************************************************************)
(* Results.  A decoder returns Ok(value) or Err(error); a slice outside    *)
(* the buffer or a from_slice of the wrong width panics.                   *)
(***************************************************************************)
Ok(v) == [st |-> "Ok", val |-> v]
Err(e) == [st |-> "Err", err |-> e]
Panic == [st |-> "Panic"]

\* alloy_rlp::Error::ListLengthMismatch { expected, got }
ListLengthMismatch(e, g) ==
  [kind |-> "ListLengthMismatch", msg |-> "", expected |-> e, got |-> g]
\* alloy_rlp::Error::Custom(msg)
Custom(m) == [kind |-> "Custom", msg |-> m, expected |-> 0, got |-> 0]
\* the other alloy_rlp errors carry no data
RlpError(k) == [kind |-> k, msg |-> "", expected |-> 0, got |-> 0]

\* goat_types/mod.rs: struct Mint
Mint(a, m, t) == [address |-> a, amount |-> m, tax |-> t]
Some(v) == [some |-> TRUE, val |-> v]
None == [some |-> FALSE]

BtcVector ==
  <<148, 244, 144, 189, 187, 123, 165, 228, 131, 7, 48, 223, 169, 124, 30, 170,
     241, 153, 168, 239, 142, 162, 168, 101, 202, 68, 198, 0, 250, 3, 39, 114,
     167, 175, 158, 220>>

Cancel2Vector ==
  <<193, 157, 211, 32, 0, 0, 0, 0, 0, 0, 0, 0, 0, 0, 0, 0,
     0, 0, 0, 0, 0, 0, 0, 0, 0, 0, 0, 0, 0, 0, 0, 0,
     198, 74, 177, 30>>

PaidVector ==
  <<182, 112, 171, 94, 0, 0, 0, 0, 0, 0, 0, 0, 0, 0, 0, 0,
     0, 0, 0, 0, 0, 0, 0, 0, 0, 0, 0, 0, 0, 0, 0, 0,
     254, 23, 30, 37, 83, 177, 18, 52, 216, 227, 226, 201, 6, 106, 254, 137,
     54, 77, 167, 49, 94, 239, 211, 11, 40, 67, 7, 21, 165, 106, 8, 213,
     144, 83, 101, 17, 0, 0, 0, 0, 0, 0, 0, 0, 0, 0, 0, 0,
     0, 0, 0, 0, 0, 0, 0, 0, 0, 0, 0, 0, 0, 0, 0, 0,
     50, 204, 130, 127, 0, 0, 0, 0, 0, 0, 0, 0, 0, 0, 0, 0,
     0, 0, 0, 0, 0, 0, 0, 0, 0, 0, 0, 0, 0, 0, 0, 0,
     186, 96, 109, 205>>

DepositVector ==
  <<144, 65, 131, 203, 21, 187, 144, 250, 99, 185, 169, 46, 49, 211, 31, 141,
     141, 48, 191, 141, 169, 217, 162, 19, 20, 198, 93, 213, 23, 242, 119, 64,
     174, 103, 109, 110, 0, 0, 0, 0, 0, 0, 0, 0, 0, 0, 0, 0,
     0, 0, 0, 0, 0, 0, 0, 0, 0, 0, 0, 0, 0, 0, 0, 0,
     42, 113, 167, 120, 0, 0, 0, 0, 0, 0, 0, 0, 0, 0, 0, 0,
     94, 78, 77, 121, 240, 129, 32, 53, 47, 4, 214, 56, 173, 236, 125, 56,
     146, 178, 128, 69, 0, 0, 0, 0, 0, 0, 0, 0, 0, 0, 0, 0,
     0, 0, 0, 0, 0, 0, 0, 0, 0, 0, 0, 0, 0, 0, 0, 0,
     21, 127, 127, 151, 0, 0, 0, 0, 0, 0, 0, 0, 0, 0, 0, 0,
     0, 0, 0, 0, 0, 0, 0, 0, 0, 0, 0, 0, 0, 0, 0, 0,
     0, 0, 0, 100>>

UnlockVector ==
  <<0, 171, 165, 26, 0, 0, 0, 0, 0, 0, 0, 0, 0, 0, 0, 0,
     0, 0, 0, 0, 0, 0, 0, 0, 0, 0, 0, 0, 0, 0, 0, 0,
     0, 0, 0, 100, 0, 0, 0, 0, 0, 0, 0, 0, 0, 0, 0, 0,
     91, 56, 218, 106, 112, 28, 86, 133, 69, 220, 252, 176, 63, 203, 135, 95,
     86, 190, 221, 196, 0, 0, 0, 0, 0, 0, 0, 0, 0, 0, 0, 0,
     0, 0, 0, 0, 0, 0, 0, 0, 0, 0, 0, 0, 0, 0, 0, 0,
     0, 0, 0, 0, 0, 0, 0, 0, 0, 0, 0, 0, 0, 0, 0, 0,
     0, 0, 0, 0, 0, 0, 0, 0, 0, 0, 0, 0, 0, 0, 0, 0,
     0, 0, 0, 1>>

RewardVector ==
  <<189, 159, 173, 181, 0, 0, 0, 0, 0, 0, 0, 0, 0, 0, 0, 0,
     0, 0, 0, 0, 0, 0, 0, 0, 0, 0, 0, 0, 0, 0, 0, 0,
     0, 0, 0, 2, 0, 0, 0, 0, 0, 0, 0, 0, 0, 0, 0, 0,
     154, 227, 135, 172, 218, 254, 75, 157, 49, 93, 11, 181, 107, 6, 171, 145,
     243, 27, 150, 112, 0, 0, 0, 0, 0, 0, 0, 0, 0, 0, 0, 0,
     0, 0, 0, 0, 0, 0, 0, 0, 0, 0, 0, 0, 0, 0, 0, 0,
     0, 0, 0, 1, 0, 0, 0, 0, 0, 0, 0, 0, 0, 0, 0, 0,
     0, 0, 0, 0, 0, 0, 0, 0, 0, 0, 0, 0, 0, 0, 0, 0,
     0, 0, 0, 100>>

(***************************************************************************)
(* goat_types/tx_bridge.rs                                                 *)
(***************************************************************************)
\* DepositTx::decode rejecting a target word whose 12 leading bytes are not zero
DepositTx_decode_strict(buf) ==
  IF Len(buf) # DepositTx_SIZE
  THEN Err(ListLengthMismatch(DepositTx_SIZE, Len(buf)))
  ELSE
    LET i0 == 0
        i1 == i0 + 4
        i2 == i1 + 32
        i3 == i2 + 32
        i4 == i3 + 32
        i5 == i4 + 32
    IN
    IF ~InBounds(buf, i0, 4) THEN Panic
    ELSE IF Len(Slice(buf, i0, 4)) # 4
      THEN Err(Custom("Invalid method ID format"))
    ELSE IF Slice(buf, i0, 4) # DepositTx_METHOD_ID
      THEN Err(Custom("not a deposit tx"))
    ELSE IF \E j \in (i3 + 1)..(i3 + 12) : j <= Len(buf) /\ buf[j] # 0
      THEN Err(Custom("non-zero padding"))
    ELSE IF ~InBounds(buf, i1, i1 + 32) THEN Panic
    ELSE IF ~InBounds(buf, i2 + 28, i2 + 32) THEN Panic
    ELSE IF Len(Slice(buf, i2 + 28, i2 + 32)) # 4
      THEN Err(Custom("Failed to decode tx_out"))
    ELSE IF ~InBounds(buf, i3 + 12, i3 + 32) THEN Panic
    ELSE IF ~InBounds(buf, i4, i4 + 32) THEN Panic
    ELSE IF Len(Slice(buf, i4, i4 + 32)) # 32
      THEN Err(Custom("Failed to decode amount"))
    ELSE IF ~InBounds(buf, i5, i5 + 32) THEN Panic
    ELSE IF Len(Slice(buf, i5, i5 + 32)) # 32
      THEN Err(Custom("Failed to decode tax"))
    ELSE Ok([tx_id  |-> from_slice(Slice(buf, i1, i1 + 32)),
             tx_out |-> from_be_bytes(Slice(buf, i2 + 28, i2 + 32)),
             target |-> from_slice(Slice(buf, i3 + 12, i3 + 32)),
             amount |-> from_be_bytes(Slice(buf, i4, i4 + 32)),
             tax    |-> from_be_bytes(Slice(buf, i5, i5 + 32))])

DepositTx_decode(buf) ==
  IF Len(buf) # DepositTx_SIZE
  THEN Err(ListLengthMismatch(DepositTx_SIZE, Len(buf)))
  ELSE
    LET i0 == 0
        i1 == i0 + 4
        i2 == i1 + 32
        i3 == i2 + 32
        i4 == i3 + 32
        i5 == i4 + 32
    IN
    IF ~InBounds(buf, i0, 4) THEN Panic
    ELSE IF Len(Slice(buf, i0, 4)) # 4
      THEN Err(Custom("Invalid method ID format"))
    ELSE IF Slice(buf, i0, 4) # DepositTx_METHOD_ID
      THEN Err(Custom("not a deposit tx"))
    ELSE IF ~InBounds(buf, i1, i1 + 32) THEN Panic
    ELSE IF ~InBounds(buf, i2 + 28, i2 + 32) THEN Panic
    ELSE IF Len(Slice(buf, i2 + 28, i2 + 32)) # 4
      THEN Err(Custom("Failed to decode tx_out"))
    ELSE IF ~InBounds(buf, i3 + 12, i3 + 32) THEN Panic
    ELSE IF ~InBounds(buf, i4, i4 + 32) THEN Panic
    ELSE IF Len(Slice(buf, i4, i4 + 32)) # 32
      THEN Err(Custom("Failed to decode amount"))
    ELSE IF ~InBounds(buf, i5, i5 + 32) THEN Panic
    ELSE IF Len(Slice(buf, i5, i5 + 32)) # 32
      THEN Err(Custom("Failed to decode tax"))
    ELSE Ok([tx_id  |-> from_slice(Slice(buf, i1, i1 + 32)),
             tx_out |-> from_be_bytes(Slice(buf, i2 + 28, i2 + 32)),
             target |-> from_slice(Slice(buf, i3 + 12, i3 + 32)),
             amount |-> from_be_bytes(Slice(buf, i4, i4 + 32)),
             tax    |-> from_be_bytes(Slice(buf, i5, i5 + 32))])

DepositTx_sender(tx) == RELAYER_EXECUTOR
DepositTx_contract(tx) == BRIDGE_CONTRACT
DepositTx_deposit(tx) == Some(Mint(tx.target, tx.amount, tx.tax))
DepositTx_withdraw(tx) == None

\* Cancel2Tx::decode comparing only the first three bytes of the selector
Cancel2Tx_decode_prefix(buf) ==
  IF Len(buf) # Cancel2Tx_SIZE
  THEN Err(ListLengthMismatch(Cancel2Tx_SIZE, Len(buf)))
  ELSE
    IF Slice(buf, 0, 3) # SubSeq(Cancel2Tx_METHOD_ID, 1, 3)
      THEN Err(Custom("not a cancel2 tx"))
    ELSE Ok([id |-> from_be_bytes(Slice(buf, 4, 4 + 32))])

Cancel2Tx_decode(buf) ==
  IF Len(buf) # Cancel2Tx_SIZE
  THEN Err(ListLengthMismatch(Cancel2Tx_SIZE, Len(buf)))
  ELSE
    IF ~InBounds(buf, 0, 4) THEN Panic
    ELSE IF Len(Slice(buf, 0, 4)) # 4
      THEN Err(Custom("Invalid method ID format"))
    ELSE IF Slice(buf, 0, 4) # Cancel2Tx_METHOD_ID
      THEN Err(Custom("not a cancel2 tx"))
    ELSE IF ~InBounds(buf, 4, 4 + 32) THEN Panic
    ELSE IF Len(Slice(buf, 4, 4 + 32)) # 32
      THEN Err(Custom("Failed to decode id"))
    ELSE Ok([id |-> from_be_bytes(Slice(buf, 4, 4 + 32))])

Cancel2Tx_sender(tx) == RELAYER_EXECUTOR
Cancel2Tx_contract(tx) == BRIDGE_CONTRACT
Cancel2Tx_deposit(tx) == None
Cancel2Tx_withdraw(tx) == None

\* PaidTx::decode rejecting only the buffers that are longer than SIZE
PaidTx_decode_atmost(buf) ==
  IF Len(buf) > PaidTx_SIZE
  THEN Err(ListLengthMismatch(PaidTx_SIZE, Len(buf)))
  ELSE
    LET i0 == 0
        i1 == i0 + 4
        i2 == i1 + 32
        i3 == i2 + 32
        i4 == i3 + 32
    IN
    IF ~InBounds(buf, i0, 4) THEN Panic
    ELSE IF Len(Slice(buf, i0, 4)) # 4
      THEN Err(Custom("Invalid method ID format"))
    ELSE IF Slice(buf, i0, 4) # PaidTx_METHOD_ID
      THEN Err(Custom("not a paid tx"))
    ELSE IF ~InBounds(buf, i1, i1 + 32) THEN Panic
    ELSE IF Len(Slice(buf, i1, i1 + 32)) # 32
      THEN Err(Custom("Failed to decode id"))
    ELSE IF ~InBounds(buf, i2, i2 + 32) THEN Panic
    ELSE IF ~InBounds(buf, i3 + 28, i3 + 32) THEN Panic
    ELSE IF Len(Slice(buf, i3 + 28, i3 + 32)) # 4
      THEN Err(Custom("Failed to decode tx_out"))
    ELSE IF ~InBounds(buf, i4, i4 + 32) THEN Panic
    ELSE IF Len(Slice(buf, i4, i4 + 32)) # 32
      THEN Err(Custom("Failed to decode amount"))
    ELSE Ok([id     |-> from_be_bytes(Slice(buf, i1, i1 + 32)),
             tx_id  |-> from_slice(Slice(buf, i2, i2 + 32)),
             tx_out |-> from_be_bytes(Slice(buf, i3 + 28, i3 + 32)),
             amount |-> from_be_bytes(Slice(buf, i4, i4 + 32))])

PaidTx_decode(buf) ==
  IF Len(buf) # PaidTx_SIZE
  THEN Err(ListLengthMismatch(PaidTx_SIZE, Len(buf)))
  ELSE
    LET i0 == 0
        i1 == i0 + 4
        i2 == i1 + 32
        i3 == i2 + 32
        i4 == i3 + 32
    IN
    IF ~InBounds(buf, i0, 4) THEN Panic
    ELSE IF Len(Slice(buf, i0, 4)) # 4
      THEN Err(Custom("Invalid method ID format"))
    ELSE IF Slice(buf, i0, 4) # PaidTx_METHOD_ID
      THEN Err(Custom("not a paid tx"))
    ELSE IF ~InBounds(buf, i1, i1 + 32) THEN Panic
    ELSE IF Len(Slice(buf, i1, i1 + 32)) # 32
      THEN Err(Custom("Failed to decode id"))
    ELSE IF ~InBounds(buf, i2, i2 + 32) THEN Panic
    ELSE IF ~InBounds(buf, i3 + 28, i3 + 32) THEN Panic
    ELSE IF Len(Slice(buf, i3 + 28, i3 + 32)) # 4
      THEN Err(Custom("Failed to decode tx_out"))
    ELSE IF ~InBounds(buf, i4, i4 + 32) THEN Panic
    ELSE IF Len(Slice(buf, i4, i4 + 32)) # 32
      THEN Err(Custom("Failed to decode amount"))
    ELSE Ok([id     |-> from_be_bytes(Slice(buf, i1, i1 + 32)),
             tx_id  |-> from_slice(Slice(buf, i2, i2 + 32)),
             tx_out |-> from_be_bytes(Slice(buf, i3 + 28, i3 + 32)),
             amount |-> from_be_bytes(Slice(buf, i4, i4 + 32))])

PaidTx_sender(tx) == RELAYER_EXECUTOR
PaidTx_contract(tx) == BRIDGE_CONTRACT
PaidTx_deposit(tx) == None
PaidTx_withdraw(tx) == None

\* NewBtcBlockTx::decode rejecting only buffers that are too short
NewBtcBlockTx_decode_short(buf) ==
  IF Len(buf) < NewBtcBlockTx_SIZE
  THEN Err(ListLengthMismatch(NewBtcBlockTx_SIZE, Len(buf)))
  ELSE
    IF Slice(buf, 0, 4) # NewBtcBlockTx_METHOD_ID
      THEN Err(Custom("not a newBlockHash tx"))
    ELSE Ok([hash |-> from_slice(Slice(buf, 4, 36))])

NewBtcBlockTx_decode(buf) ==
  IF Len(buf) # NewBtcBlockTx_SIZE
  THEN Err(ListLengthMismatch(NewBtcBlockTx_SIZE, Len(buf)))
  ELSE
    IF ~InBounds(buf, 0, 4) THEN Panic
    ELSE IF Len(Slice(buf, 0, 4)) # 4
      THEN Err(Custom("Invalid method ID format"))
    ELSE IF Slice(buf, 0, 4) # NewBtcBlockTx_METHOD_ID
      THEN Err(Custom("not a newBlockHash tx"))
    ELSE IF ~InBounds(buf, 4, 36) THEN Panic
    ELSE Ok([hash |-> from_slice(Slice(buf, 4, 36))])

NewBtcBlockTx_sender(tx) == RELAYER_EXECUTOR

\* NewBtcBlockTx::contract returning the bridge contract
NewBtcBlockTx_contract_bridge(tx) == BRIDGE_CONTRACT

NewBtcBlockTx_contract(tx) == BITCOINT_CONTRACT
NewBtcBlockTx_deposit(tx) == None
NewBtcBlockTx_withdraw(tx) == None

\* NewBtcBlockTx::default()
NewBtcBlockTx_default == [hash |-> [j \in 1..32 |-> 0]]

(***************************************************************************)
(* goat_types/tx_locking.rs                                                *)
(***************************************************************************)
\* CompleteUnlockTx::decode reading id from the first 8 bytes of its word
CompleteUnlockTx_decode_leftaligned(buf) ==
  IF Len(buf) # CompleteUnlockTx_SIZE
  THEN Err(ListLengthMismatch(CompleteUnlockTx_SIZE, Len(buf)))
  ELSE
    IF Slice(buf, 0, 4) # CompleteUnlockTx_METHOD_ID
      THEN Err(Custom("not a completeUnlock tx"))
    ELSE Ok([id        |-> from_be_bytes(Slice(buf, 4, 12)),
             recipient |-> from_slice(Slice(buf, 48, 68)),
             token     |-> from_slice(Slice(buf, 80, 100)),
             amount    |-> from_be_bytes(Slice(buf, 100, 132))])

CompleteUnlockTx_decode(buf) ==
  IF Len(buf) # CompleteUnlockTx_SIZE
  THEN Err(ListLengthMismatch(CompleteUnlockTx_SIZE, Len(buf)))
  ELSE
    LET i0 == 0
        i1 == i0 + 4
        i2 == i1 + 32
        i3 == i2 + 32
        i4 == i3 + 32
    IN
    IF ~InBounds(buf, i0, 4) THEN Panic
    ELSE IF Len(Slice(buf, i0, 4)) # 4
      THEN Err(Custom("Invalid method ID format"))
    ELSE IF Slice(buf, i0, 4) # CompleteUnlockTx_METHOD_ID
      THEN Err(Custom("not a completeUnlock tx"))
    ELSE IF ~InBounds(buf, i1 + 24, i1 + 32) THEN Panic
    ELSE IF Len(Slice(buf, i1 + 24, i1 + 32)) # 8
      THEN Err(Custom("Failed to decode id"))
    ELSE IF ~InBounds(buf, i2 + 12, i2 + 32) THEN Panic
    ELSE IF ~InBounds(buf, i3 + 12, i3 + 32) THEN Panic
    ELSE IF ~InBounds(buf, i4, i4 + 32) THEN Panic
    ELSE IF Len(Slice(buf, i4, i4 + 32)) # 32
      THEN Err(Custom("Failed to decode amount"))
    ELSE Ok([id        |-> from_be_bytes(Slice(buf, i1 + 24, i1 + 32)),
             recipient |-> from_slice(Slice(buf, i2 + 12, i2 + 32)),
             token     |-> from_slice(Slice(buf, i3 + 12, i3 + 32)),
             amount    |-> from_be_bytes(Slice(buf, i4, i4 + 32))])

CompleteUnlockTx_sender(tx) == LOCKING_EXECUTOR
CompleteUnlockTx_contract(tx) == LOCKING_CONTRACT
CompleteUnlockTx_deposit(tx) == None
\* CompleteUnlockTx::withdraw without the test of the token
CompleteUnlockTx_withdraw_anytoken(tx) ==
  Some(Mint(tx.recipient, tx.amount, U256_ZERO))

CompleteUnlockTx_withdraw(tx) ==
  IF tx.token = NATIVE_TOKEN
  THEN Some(Mint(tx.recipient, tx.amount, U256_ZERO))
  ELSE None

DistributeRewardTx_decode(buf) ==
  IF Len(buf) # DistributeRewardTx_SIZE
  THEN Err(ListLengthMismatch(DistributeRewardTx_SIZE, Len(buf)))
  ELSE
    LET i0 == 0
        i1 == i0 + 4
        i2 == i1 + 32
        i3 == i2 + 32
        i4 == i3 + 32
    IN
    IF ~InBounds(buf, i0, 4) THEN Panic
    ELSE IF Len(Slice(buf, i0, 4)) # 4
      THEN Err(Custom("Invalid method ID format"))
    ELSE IF Slice(buf, i0, 4) # DistributeRewardTx_METHOD_ID
      THEN Err(Custom("not a completeUnlock tx"))
    ELSE IF ~InBounds(buf, i1 + 24, i1 + 32) THEN Panic
    ELSE IF Len(Slice(buf, i1 + 24, i1 + 32)) # 8
      THEN Err(Custom("Failed to decode id"))
    ELSE IF ~InBounds(buf, i2 + 12, i2 + 32) THEN Panic
    ELSE IF ~InBounds(buf, i3, i3 + 32) THEN Panic
    ELSE IF Len(Slice(buf, i3, i3 + 32)) # 32
      THEN Err(Custom("Failed to decode goat"))
    ELSE IF ~InBounds(buf, i4, i4 + 32) THEN Panic
    ELSE IF Len(Slice(buf, i4, i4 + 32)) # 32
      THEN Err(Custom("Failed to decode gas_reward"))
    ELSE Ok([id         |-> from_be_bytes(Slice(buf, i1 + 24, i1 + 32)),
             recipient  |-> from_slice(Slice(buf, i2 + 12, i2 + 32)),
             goat       |-> from_be_bytes(Slice(buf, i3, i3 + 32)),
             gas_reward |-> from_be_bytes(Slice(buf, i4, i4 + 32))])

DistributeRewardTx_sender(tx) == LOCKING_EXECUTOR
DistributeRewardTx_contract(tx) == LOCKING_CONTRACT
DistributeRewardTx_deposit(tx) == None
\* DistributeRewardTx::withdraw paying out goat instead of gas_reward
DistributeRewardTx_withdraw_goat(tx) ==
  Some(Mint(tx.recipient, tx.goat, U256_ZERO))

DistributeRewardTx_withdraw(tx) ==
  Some(Mint(tx.recipient, tx.gas_reward, U256_ZERO))

(***************************************************************************)
(* goat_types/tx.rs: the tagged value and the dispatcher.                  *)
(***************************************************************************)
\* TxGoatInner::<tag>(tx)
TxGoatInner(tag, tx) == [tag |-> tag, tx |-> tx]

\* impl Default for TxGoatInner
TxGoatInner_default == TxGoatInner("NewBtcBlockTx", NewBtcBlockTx_default)

TxGoatInner_sender(inner) ==
  CASE inner.tag = "NewBtcBlockTx"      -> NewBtcBlockTx_sender(inner.tx)
    [] inner.tag = "CompleteUnlockTx"   -> CompleteUnlockTx_sender(inner.tx)
    [] inner.tag = "DistributeRewardTx" -> DistributeRewardTx_sender(inner.tx)
    [] inner.tag = "DepositTx"          -> DepositTx_sender(inner.tx)
    [] inner.tag = "Cancel2Tx"          -> Cancel2Tx_sender(inner.tx)
    [] inner.tag = "PaidTx"             -> PaidTx_sender(inner.tx)

TxGoatInner_to(inner) ==
  CASE inner.tag = "NewBtcBlockTx"      -> NewBtcBlockTx_contract(inner.tx)
    [] inner.tag = "CompleteUnlockTx"   -> CompleteUnlockTx_contract(inner.tx)
    [] inner.tag = "DistributeRewardTx" -> DistributeRewardTx_contract(inner.tx)
    [] inner.tag = "DepositTx"          -> DepositTx_contract(inner.tx)
    [] inner.tag = "Cancel2Tx"          -> Cancel2Tx_contract(inner.tx)
    [] inner.tag = "PaidTx"             -> PaidTx_contract(inner.tx)

TxGoatInner_deposit(inner) ==
  CASE inner.tag = "NewBtcBlockTx"      -> NewBtcBlockTx_deposit(inner.tx)
    [] inner.tag = "CompleteUnlockTx"   -> CompleteUnlockTx_deposit(inner.tx)
    [] inner.tag = "DistributeRewardTx" -> DistributeRewardTx_deposit(inner.tx)
    [] inner.tag = "DepositTx"          -> DepositTx_deposit(inner.tx)
    [] inner.tag = "Cancel2Tx"          -> Cancel2Tx_deposit(inner.tx)
    [] inner.tag = "PaidTx"             -> PaidTx_deposit(inner.tx)

TxGoatInner_withdraw(inner) ==
  CASE inner.tag = "NewBtcBlockTx"      -> NewBtcBlockTx_withdraw(inner.tx)
    [] inner.tag = "CompleteUnlockTx"   -> CompleteUnlockTx_withdraw(inner.tx)
    [] inner.tag = "DistributeRewardTx" -> DistributeRewardTx_withdraw(inner.tx)
    [] inner.tag = "DepositTx"          -> DepositTx_withdraw(inner.tx)
    [] inner.tag = "Cancel2Tx"          -> Cancel2Tx_withdraw(inner.tx)
    [] inner.tag = "PaidTx"             -> PaidTx_withdraw(inner.tx)

\* TxGoatInner::<tag>(<variant>::decode(buf)?)
Wrap(tag, r) == IF r.st = "Ok" THEN Ok(TxGoatInner(tag, r.val)) ELSE r

\* decode_goat_tx with the arms of BITCOIN_NEW_BLOCK_ACTION and
\* BRIDGE_CANCEL2_ACTION exchanged
decode_goat_tx_swapped(module, action, buf) ==
  IF module = BIRDGE_MODULE THEN
    IF action = BRIDGE_CANCEL2_ACTION
      THEN Wrap("NewBtcBlockTx", NewBtcBlockTx_decode(buf))
    ELSE IF action = BITCOIN_NEW_BLOCK_ACTION
      THEN Wrap("Cancel2Tx", Cancel2Tx_decode(buf))
    ELSE IF action = BRIDGE_DEPOIT_ACTION
      THEN Wrap("DepositTx", DepositTx_decode(buf))
    ELSE IF action = BRIDGE_PAID_ACTION
      THEN Wrap("PaidTx", PaidTx_decode(buf))
    ELSE Err(Custom("Unknown action for Bridge module"))
  ELSE IF module = LOCKING_MODULE THEN
    IF action = LOCKING_COMPLETE_UNLOCK_ACTION
      THEN Wrap("CompleteUnlockTx", CompleteUnlockTx_decode(buf))
    ELSE IF action = LOCKING_DISTRIBUTE_REWARD_ACTION
      THEN Wrap("DistributeRewardTx", DistributeRewardTx_decode(buf))
    ELSE Err(Custom("Unknown action for Locking module"))
  ELSE Err(Custom("Unknown module for TxGoat"))

\* decode_goat_tx whose Locking arm has no catch-all of its own, so that an
\* unknown Locking action reports an unknown module
decode_goat_tx_fallthrough(module, action, buf) ==
  IF module = BIRDGE_MODULE THEN
    IF action = BITCOIN_NEW_BLOCK_ACTION
      THEN Wrap("NewBtcBlockTx", NewBtcBlockTx_decode(buf))
    ELSE IF action = BRIDGE_CANCEL2_ACTION
      THEN Wrap("Cancel2Tx", Cancel2Tx_decode(buf))
    ELSE IF action = BRIDGE_DEPOIT_ACTION
      THEN Wrap("DepositTx", DepositTx_decode(buf))
    ELSE IF action = BRIDGE_PAID_ACTION
      THEN Wrap("PaidTx", PaidTx_decode(buf))
    ELSE Err(Custom("Unknown action for Bridge module"))
  ELSE IF module = LOCKING_MODULE /\ action = LOCKING_COMPLETE_UNLOCK_ACTION
    THEN Wrap("CompleteUnlockTx", CompleteUnlockTx_decode(buf))
  ELSE IF module = LOCKING_MODULE /\ action = LOCKING_DISTRIBUTE_REWARD_ACTION
    THEN Wrap("DistributeRewardTx", DistributeRewardTx_decode(buf))
  ELSE Err(Custom("Unknown module for TxGoat"))

\* decode_goat_tx that keeps the latest invocation and refuses to decode again
\* what that invocation decoded
decode_goat_tx_once(module, action, buf) ==
  IF /\ calls[1].out.st = "Ok" /\ calls[1].module = module
     /\ calls[1].action = action /\ calls[1].input = buf
  THEN Err(Custom("already decoded"))
  ELSE
    IF module = BIRDGE_MODULE THEN
      IF action = BITCOIN_NEW_BLOCK_ACTION
        THEN Wrap("NewBtcBlockTx", NewBtcBlockTx_decode(buf))
      ELSE IF action = BRIDGE_CANCEL2_ACTION
        THEN Wrap("Cancel2Tx", Cancel2Tx_decode(buf))
      ELSE IF action = BRIDGE_DEPOIT_ACTION
        THEN Wrap("DepositTx", DepositTx_decode(buf))
      ELSE IF action = BRIDGE_PAID_ACTION
        THEN Wrap("PaidTx", PaidTx_decode(buf))
      ELSE Err(Custom("Unknown action for Bridge module"))
    ELSE IF module = LOCKING_MODULE THEN
      IF action = LOCKING_COMPLETE_UNLOCK_ACTION
        THEN Wrap("CompleteUnlockTx", CompleteUnlockTx_decode(buf))
      ELSE IF action = LOCKING_DISTRIBUTE_REWARD_ACTION
        THEN Wrap("DistributeRewardTx", DistributeRewardTx_decode(buf))
      ELSE Err(Custom("Unknown action for Locking module"))
    ELSE Err(Custom("Unknown module for TxGoat"))

decode_goat_tx(module, action, buf) ==
  IF module = BIRDGE_MODULE THEN
    IF action = BITCOIN_NEW_BLOCK_ACTION
      THEN Wrap("NewBtcBlockTx", NewBtcBlockTx_decode(buf))
    ELSE IF action = BRIDGE_CANCEL2_ACTION
      THEN Wrap("Cancel2Tx", Cancel2Tx_decode(buf))
    ELSE IF action = BRIDGE_DEPOIT_ACTION
      THEN Wrap("DepositTx", DepositTx_decode(buf))
    ELSE IF action = BRIDGE_PAID_ACTION
      THEN Wrap("PaidTx", PaidTx_decode(buf))
    ELSE Err(Custom("Unknown action for Bridge module"))
  ELSE IF module = LOCKING_MODULE THEN
    IF action = LOCKING_COMPLETE_UNLOCK_ACTION
      THEN Wrap("CompleteUnlockTx", CompleteUnlockTx_decode(buf))
    ELSE IF action = LOCKING_DISTRIBUTE_REWARD_ACTION
      THEN Wrap("DistributeRewardTx", DistributeRewardTx_decode(buf))
    ELSE Err(Custom("Unknown action for Locking module"))
  ELSE Err(Custom("Unknown module for TxGoat"))

(***************************************************************************)
(* RLP items (alloy_rlp) and the list framing of rlp_encode / rlp_decode   *)
(* (trait defaults of RlpEcdsaEncodableTx / RlpEcdsaDecodableTx), after    *)
(* the wire format: a list of module, action, nonce, payload.              *)
(***************************************************************************)
RECURSIVE BeBytes(_)
\* the big-endian bytes of n without leading zeros (empty for 0)
BeBytes(n) == IF n = 0 THEN <<>> ELSE BeBytes(n \div 256) \o <<n % 256>>

RECURSIVE BeNat(_)
\* the number a big-endian byte string denotes
BeNat(bytes) ==
  IF bytes = <<>> THEN 0
  ELSE 256 * BeNat(SubSeq(bytes, 1, Len(bytes) - 1)) + bytes[Len(bytes)]

\* Header { list, payload_length }.encode
Header_encode(list, len) ==
  IF len < 56
  THEN <<(IF list THEN 192 ELSE 128) + len>>
  ELSE <<(IF list THEN 247 ELSE 183) + Len(BeBytes(len))>> \o BeBytes(len)

\* <u8 as Encodable>::encode
uint_encode(n) ==
  IF n = 0 THEN <<128>>
  ELSE IF n < 128 THEN <<n>>
  ELSE <<128 + Len(BeBytes(n))>> \o BeBytes(n)

\* <u8 as Encodable>::length
uint_length(n) == IF n < 128 THEN 1 ELSE 1 + Len(BeBytes(n))

RECURSIVE TrimLeft(_)
\* the byte string without its leading zero bytes
TrimLeft(bytes) ==
  IF bytes = <<>> THEN <<>>
  ELSE IF bytes[1] # 0 THEN bytes
  ELSE TrimLeft(Tail(bytes))

\* the RLP item of an integer whose big-endian bytes without leading zeros
\* are be
UintItem(be) ==
  IF be = <<>> THEN <<128>>
  ELSE IF Len(be) = 1 /\ be[1] < 128 THEN be
  ELSE <<128 + Len(be)>> \o be

\* <u64 as Encodable>::encode
u64_encode(n) == UintItem(TrimLeft(to_be_bytes(n)))

\* <u64 as Encodable>::length
u64_length(n) == Len(u64_encode(n))

\* <[u8] as Encodable>::encode
bytes_encode(b) ==
  IF Len(b) = 1 /\ b[1] < 128 THEN b ELSE Header_encode(FALSE, Len(b)) \o b

\* <[u8] as Encodable>::length
bytes_length(b) ==
  IF Len(b) = 1 /\ b[1] < 128 THEN 1
  ELSE Len(Header_encode(FALSE, Len(b))) + Len(b)

\* a decoding step: Ok value and the rest of the buffer, or an error
Step(v, rest) == [st |-> "Ok", val |-> v, rest |-> rest]

\* Header::decode, by the first byte b of buf; adv is buf after that byte
HeaderOf(b, adv, buf) ==
  IF b < 128 THEN Step([list |-> FALSE, payload_length |-> 1], buf)
  ELSE IF b <= 183 THEN
    IF b - 128 = 1 /\ adv = <<>> THEN Err(RlpError("InputTooShort"))
    ELSE IF b - 128 = 1 /\ adv[1] < 128
      THEN Err(RlpError("NonCanonicalSingleByte"))
    ELSE Step([list |-> FALSE, payload_length |-> b - 128], adv)
  ELSE IF b <= 191 \/ b >= 248 THEN
    IF Len(adv) < b - (IF b >= 248 THEN 247 ELSE 183)
      THEN Err(RlpError("InputTooShort"))
    ELSE IF adv[1] = 0 THEN Err(RlpError("LeadingZero"))
    ELSE IF b - (IF b >= 248 THEN 247 ELSE 183) > 3
      THEN Err(RlpError("InputTooShort"))  \* 2^24 bytes or more are announced
    ELSE IF BeNat(SubSeq(adv, 1, b - (IF b >= 248 THEN 247 ELSE 183))) < 56
      THEN Err(RlpError("NonCanonicalSize"))
    ELSE Step([list |-> b >= 248,
               payload_length |->
                 BeNat(SubSeq(adv, 1, b - (IF b >= 248 THEN 247 ELSE 183)))],
              SubSeq(adv, b - (IF b >= 248 THEN 247 ELSE 183) + 1, Len(adv)))
  ELSE Step([list |-> TRUE, payload_length |-> b - 192], adv)

\* Header::decode, its last check: the payload is in the buffer
HeaderFits(hdr) ==
  IF hdr.st # "Ok" THEN hdr
  ELSE IF Len(hdr.rest) < hdr.val.payload_length
    THEN Err(RlpError("InputTooShort"))
  ELSE hdr

\* Header::decode
Header_decode(buf) ==
  IF buf = <<>> THEN Err(RlpError("InputTooShort"))
  ELSE HeaderFits(HeaderOf(buf[1], Tail(buf), buf))

\* Header::decode_bytes(buf, false), after its Header::decode gave h
BytesOf(h) ==
  IF h.st # "Ok" THEN h
  ELSE IF h.val.list THEN Err(RlpError("UnexpectedList"))
  ELSE Step(SubSeq(h.rest, 1, h.val.payload_length),
            SubSeq(h.rest, h.val.payload_length + 1, Len(h.rest)))

\* Header::decode_bytes(buf, false)
Header_decode_bytes(buf) == BytesOf(Header_decode(buf))

\* <u8 as Decodable>::decode, after its Header::decode_bytes gave r
UintOf(r, width) ==
  IF r.st # "Ok" THEN r
  ELSE IF Len(r.val) > width THEN Err(RlpError("Overflow"))
  ELSE IF r.val = <<>> THEN Step(0, r.rest)
  ELSE IF r.val[1] = 0 THEN Err(RlpError("LeadingZero"))
  ELSE Step(BeNat(r.val), r.rest)

\* <u8 as Decodable>::decode, for an integer of `width` bytes
uint_decode(buf, width) == UintOf(Header_decode_bytes(buf), width)

\* static_left_pad::<8>: the bytes after as many zero bytes as make 8
LeftPad8(bytes) == [j \in 1..(8 - Len(bytes)) |-> 0] \o bytes

\* <u64 as Decodable>::decode, after its Header::decode_bytes gave r
U64Of(r) ==
  IF r.st # "Ok" THEN r
  ELSE IF Len(r.val) > 8 THEN Err(RlpError("Overflow"))
  ELSE IF r.val = <<>> THEN Step(u64_from(0), r.rest)
  ELSE IF r.val[1] = 0 THEN Err(RlpError("LeadingZero"))
  ELSE Step(from_be_bytes(LeftPad8(r.val)), r.rest)

\* <u64 as Decodable>::decode
u64_decode(buf) == U64Of(Header_decode_bytes(buf))

(***************************************************************************)
(* goat.rs: the envelope.                                                  *)
(***************************************************************************)
TxGoat(module, action, nonce, input, inner, chain_id) ==
  [module |-> module, action |-> action, nonce |-> nonce, input |-> input,
   inner |-> inner, chain_id |-> chain_id]

\* TxGoat::default()
TxGoat_default == TxGoat(0, 0, u64_from(0), <<>>, TxGoatInner_default, 0)

TxGoat_sender(tx) == TxGoatInner_sender(tx.inner)
TxGoat_to(tx) == TxGoatInner_to(tx.inner)
TxGoat_deposit(tx) == TxGoatInner_deposit(tx.inner)
TxGoat_withdraw(tx) == TxGoatInner_withdraw(tx.inner)

\* TxKind, and <TxKind as From<Address>>::from
TxKind_Create == [kind |-> "Create"]
TxKind_Call(to) == [kind |-> "Call", to |-> to]

\* impl Transaction for TxGoat
\* chain_id() is fixed by the build: goat_testnet says whether the feature
\* "goat-testnet" is on
TxGoat_chain_id(tx, goat_testnet) ==
  Some(IF goat_testnet THEN GOAT_TESTNET_CHAIN_ID ELSE GOAT_CHAIN_ID)
TxGoat_gas_limit(tx) == 0
TxGoat_gas_price(tx) == Some(0)
TxGoat_max_fee_per_gas(tx) == 0
TxGoat_max_priority_fee_per_gas(tx) == Some(0)
TxGoat_effective_gas_price(tx, base_fee) == 0
TxGoat_is_create(tx) == FALSE
TxGoat_value(tx) == U256_ZERO
TxGoat_access_list(tx) == None
TxGoat_blob_versioned_hashes(tx) == None
TxGoat_authorization_list(tx) == None

\* Transaction::kind creating a contract for an envelope that holds the
\* default inner value
TxGoat_kind_create(tx) ==
  IF tx.inner = TxGoatInner_default THEN TxKind_Create
  ELSE TxKind_Call(TxGoatInner_to(tx.inner))

TxGoat_kind(tx) == TxKind_Call(TxGoatInner_to(tx.inner))

\* TxGoat::decode_tx
decode_tx(tx) == decode_goat_tx(tx.module, tx.action, tx.input)

rlp_encoded_fields_length(tx) ==
  uint_length(tx.module) + uint_length(tx.action) + u64_length(tx.nonce)
    + bytes_length(tx.input)

\* rlp_encode_fields writing the nonce before the action
rlp_encode_fields_reordered(tx) ==
  uint_encode(tx.module) \o u64_encode(tx.nonce) \o uint_encode(tx.action)
    \o bytes_encode(tx.input)

rlp_encode_fields(tx) ==
  uint_encode(tx.module) \o uint_encode(tx.action) \o u64_encode(tx.nonce)
    \o bytes_encode(tx.input)

\* RlpEcdsaEncodableTx::rlp_encode: the list header, then the fields
rlp_encode(tx) ==
  Header_encode(TRUE, rlp_encoded_fields_length(tx)) \o rlp_encode_fields(tx)

\* let <name> = Decodable::decode(buf)?: the fields f with the item r added
WithField(f, r, name) ==
  IF r.st # "Ok" THEN r
  ELSE Step([f.val EXCEPT ![name] = r.val], r.rest)

\* rlp_decode_fields, the fields read so far: f holds them and the rest of
\* the buffer, or the first error
ThenAction(f) ==
  IF f.st # "Ok" THEN f
  ELSE WithField(f, uint_decode(f.rest, 1), "action")
ThenNonce(f) ==
  IF f.st # "Ok" THEN f
  ELSE WithField(f, u64_decode(f.rest), "nonce")
ThenInput(f) ==
  IF f.st # "Ok" THEN f
  ELSE WithField(f, Header_decode_bytes(f.rest), "input")

\* rlp_decode_fields, its four Decodable::decode calls
ParseFields(buf) ==
  ThenInput(ThenNonce(ThenAction(
    WithField(Step([module |-> 0, action |-> 0, nonce |-> u64_from(0),
                    input |-> <<>>], buf),
              uint_decode(buf, 1), "module"))))

\* rlp_decode_fields, from decode_goat_tx on: f holds the four fields
ThenInner(f, inner) ==
  IF inner.st # "Ok" THEN inner
  ELSE Step(TxGoat(f.val.module, f.val.action, f.val.nonce, f.val.input,
                   inner.val, GOAT_CHAIN_ID),
            f.rest)

FieldsThenInner(f) ==
  IF f.st # "Ok" THEN f
  ELSE ThenInner(f, decode_goat_tx(f.val.module, f.val.action, f.val.input))

\* rlp_decode_fields with decode_goat_tx(..).unwrap_or_default()
ThenInnerOrDefault(f, inner) ==
  Step(TxGoat(f.val.module, f.val.action, f.val.nonce, f.val.input,
              IF inner.st = "Ok" THEN inner.val ELSE TxGoatInner_default,
              GOAT_CHAIN_ID),
       f.rest)

FieldsThenInnerOrDefault(f) ==
  IF f.st # "Ok" THEN f
  ELSE ThenInnerOrDefault(f, decode_goat_tx(f.val.module, f.val.action,
                                            f.val.input))

rlp_decode_fields_or_default(buf) == FieldsThenInnerOrDefault(ParseFields(buf))

rlp_decode_fields(buf) == FieldsThenInner(ParseFields(buf))

\* RlpEcdsaDecodableTx::rlp_decode, after rlp_decode_fields gave `this`: the
\* fields took exactly the announced length
ExactLength(h, this) ==
  IF this.st # "Ok" THEN this
  ELSE IF Len(this.rest) + h.val.payload_length # Len(h.rest)
    THEN Err(RlpError("UnexpectedLength"))
  ELSE Ok(this.val)

\* RlpEcdsaDecodableTx::rlp_decode, after Header::decode gave h
ListOf(h) ==
  IF h.st # "Ok" THEN h
  ELSE IF ~h.val.list THEN Err(RlpError("UnexpectedString"))
  ELSE ExactLength(h, rlp_decode_fields(h.rest))

\* RlpEcdsaDecodableTx::rlp_decode: the list header, then the fields
rlp_decode(buf) == ListOf(Header_decode(buf))

\* SignableTransaction::encode_for_signing: the type byte, then the list
encode_for_signing(tx) == <<GOAT_TX_TYPE_ID>> \o rlp_encode(tx)

\* SignableTransaction::payload_len_for_signature
payload_len_for_signature(tx) == Len(rlp_encode(tx)) + 1

(***************************************************************************)
(* goat.rs: serde_bincode_compat.  The mirror struct serializes module,    *)
(* action, nonce and input in this order and skips inner and chain_id;     *)
(* bincode's legacy configuration writes fixed-width little-endian         *)
(* integers and a u64 length before a byte string.                         *)
(***************************************************************************)
\* u64::to_le_bytes
u64_to_le_bytes(n) ==
  [j \in 1..8 |-> IF j % 2 = 1 THEN n[(j + 1) \div 2] % 256
                  ELSE n[j \div 2] \div 256]

\* u64::from_le_bytes
u64_from_le_bytes(b) == [k \in 1..4 |-> b[2 * k - 1] + 256 * b[2 * k]]

\* the u64 n is at most the small number m
u64_at_most(n, m) ==
  n[4] = 0 /\ n[3] = 0 /\ n[2] < 32768 /\ n[1] + 65536 * n[2] <= m

\* the u64 n as a small number, when it is one
u64_small(n) == n[1] + 65536 * n[2]

\* SerializeAs::serialize_as
serialize_as(tx) ==
  <<tx.module, tx.action>> \o u64_to_le_bytes(tx.nonce)
    \o u64_to_le_bytes(u64_from(Len(tx.input))) \o tx.input

\* bincode's own decode errors carry no data
BincodeError(k) == [kind |-> k, msg |-> "", expected |-> 0, got |-> 0]

\* serde's custom error around an inner decode error
SerdeCustom(e) == [kind |-> "SerdeCustom", msg |-> e.kind, expected |-> e.expected,
                   got |-> e.got, cause |-> e]

\* deserialize_as, after TxGoat::deserialize gave the envelope tx:
\* tx.inner = tx.decode_tx().map_err(serde::de::Error::custom)?
SetInner(tx, inner) ==
  IF inner.st = "Err" THEN Err(SerdeCustom(inner.err))
  ELSE IF inner.st = "Panic" THEN Panic
  ELSE Ok([tx EXCEPT !.inner = inner.val])

DecodeInto(tx) == SetInner(tx, decode_tx(tx))

\* DeserializeAs::deserialize_as
deserialize_as(buf) ==
  IF Len(buf) < 18 THEN Err(BincodeError("UnexpectedEnd"))
  ELSE IF ~u64_at_most(u64_from_le_bytes(SubSeq(buf, 11, 18)), Len(buf) - 18)
    THEN Err(BincodeError("UnexpectedEnd"))
  ELSE DecodeInto(TxGoat(buf[1], buf[2], u64_from_le_bytes(SubSeq(buf, 3, 10)),
                         SubSeq(buf, 19,
                                18 + u64_small(u64_from_le_bytes(SubSeq(buf, 11, 18)))),
                         TxGoatInner_default, 0))

(***************************************************************************)
(* Inputs.  The payloads are the six test vectors of goat.rs, all-zero     *)
(* bodies and position-dependent bodies behind each selector, each also    *)
(* with a damaged selector and with MaxDelta bytes too few or too many.    *)
(***************************************************************************)
Variants == {"NewBtcBlockTx", "Cancel2Tx", "PaidTx", "DepositTx",
             "CompleteUnlockTx", "DistributeRewardTx"}

SIZE(v) ==
  CASE v = "NewBtcBlockTx"      -> NewBtcBlockTx_SIZE
    [] v = "Cancel2Tx"          -> Cancel2Tx_SIZE
    [] v = "PaidTx"             -> PaidTx_SIZE
    [] v = "DepositTx"          -> DepositTx_SIZE
    [] v = "CompleteUnlockTx"   -> CompleteUnlockTx_SIZE
    [] v = "DistributeRewardTx" -> DistributeRewardTx_SIZE

METHOD_ID(v) ==
  CASE v = "NewBtcBlockTx"      -> NewBtcBlockTx_METHOD_ID
    [] v = "Cancel2Tx"          -> Cancel2Tx_METHOD_ID
    [] v = "PaidTx"             -> PaidTx_METHOD_ID
    [] v = "DepositTx"          -> DepositTx_METHOD_ID
    [] v = "CompleteUnlockTx"   -> CompleteUnlockTx_METHOD_ID
    [] v = "DistributeRewardTx" -> DistributeRewardTx_METHOD_ID

Vector(v) ==
  CASE v = "NewBtcBlockTx"      -> BtcVector
    [] v = "Cancel2Tx"          -> Cancel2Vector
    [] v = "PaidTx"             -> PaidVector
    [] v = "DepositTx"          -> DepositVector
    [] v = "CompleteUnlockTx"   -> UnlockVector
    [] v = "DistributeRewardTx" -> RewardVector

\* the selector of v, then zeros
Zeros(v) == METHOD_ID(v) \o [j \in 1..(SIZE(v) - 4) |-> 0]

\* the selector of v, then bytes that differ from position to position and
\* are non-zero in every padding position
Pattern(v, k) ==
  METHOD_ID(v) \o [j \in 1..(SIZE(v) - 4) |-> (7 * j + 89 * k) % 256]

Fills(v) == {Vector(v), Zeros(v)} \cup {Pattern(v, k) : k \in 1..NumPatterns}

\* the payload as is, and with the last selector byte changed
Selectors(p) == {p, [p EXCEPT ![4] = (p[4] + 1) % 256]}

\* d bytes cut off the end (d < 0) or d zero bytes appended (d > 0)
Resize(p, d) ==
  IF d < 0 THEN SubSeq(p, 1, Len(p) + d) ELSE p \o [j \in 1..d |-> 0]

\* the payloads made for the decoder of variant v
PayloadsOf(v) ==
  UNION {{Resize(s, d) : s \in Selectors(f), d \in (0 - MaxDelta)..MaxDelta}
         : f \in Fills(v)}

\* the payloads tried under (module, action) pairs that route nowhere
BasePayloads == {<<>>} \cup {Vector(v) : v \in Variants}

ModuleValues == {0, BIRDGE_MODULE, LOCKING_MODULE, 99}
ActionValues == {0, 1, 2, 3, 4, 5, 99}
NonceValues == {u64_from(0), u64_from(1000)}
ChainIdValues == {1, GOAT_CHAIN_ID}

\* the (module, action) pair that the tests send the payload of variant v
\* under
Route(v) ==
  CASE v = "NewBtcBlockTx"      -> <<BIRDGE_MODULE, BITCOIN_NEW_BLOCK_ACTION>>
    [] v = "Cancel2Tx"          -> <<BIRDGE_MODULE, BRIDGE_CANCEL2_ACTION>>
    [] v = "PaidTx"             -> <<BIRDGE_MODULE, BRIDGE_PAID_ACTION>>
    [] v = "DepositTx"          -> <<BIRDGE_MODULE, BRIDGE_DEPOIT_ACTION>>
    [] v = "CompleteUnlockTx"   -> <<LOCKING_MODULE, LOCKING_COMPLETE_UNLOCK_ACTION>>
    [] v = "DistributeRewardTx" -> <<LOCKING_MODULE, LOCKING_DISTRIBUTE_REWARD_ACTION>>

\* the envelopes' (module, action, input): the payloads made for a variant
\* under its pair, the base payloads under every pair
Inputs ==
  UNION {{<<Route(v)[1], Route(v)[2], p>> : p \in PayloadsOf(v)} : v \in Variants}
  \cup {<<m, a, p>> : m \in ModuleValues, a \in ActionValues, p \in BasePayloads}

(***************************************************************************)
(* State of the caller.                                                    *)
(*   tx      the envelope the caller holds                                 *)
(*   wire    the bytes last written by an encoder                         *)
(*   result  what the last decoding operation returned                     *)
(***************************************************************************)
VARIABLES tx, wire, result

vars == <<tx, wire, result, calls>>

NoWire == [fmt |-> "none", bytes |-> <<>>]
NoResult == [op |-> "none"]

\* the record of one invocation of decode_goat_tx: its arguments, its outcome,
\* and the operation that made it with the nonce and the chain id of the
\* envelope it was made for
Call(module, action, input, out, via, nonce, chain_id) ==
  [module |-> module, action |-> action, input |-> input, out |-> out,
   via |-> via, nonce |-> nonce, chain_id |-> chain_id]

\* a place of the window that holds no invocation yet
NoCall == Call(0, 0, <<>>, [st |-> "None"], "none", u64_from(0), 0)

\* c enters the window, the oldest place leaves it
Push(c) == <<c>> \o SubSeq(calls, 1, Len(calls) - 1)

\* an envelope as the tests build it: TxGoat { module, action, input,
\* ..Default::default() }, with any nonce
Init ==
  /\ \E i \in Inputs, n \in NonceValues :
       tx = [TxGoat_default EXCEPT !.module = i[1], !.action = i[2], !.nonce = n,
                                   !.input = i[3]]
  /\ wire = NoWire
  /\ result = NoResult
  /\ calls = <<NoCall>>

\* tx.decode_tx() storing what it decoded: self.inner = decode_goat_tx(..)?
DecodeTx_store ==
  /\ result' = [op |-> "decode_tx", out |-> decode_tx(tx)]
  /\ calls' = Push(Call(tx.module, tx.action, tx.input, decode_tx(tx),
                        "decode_tx", tx.nonce, tx.chain_id))
  /\ tx' = IF decode_tx(tx).st = "Ok"
           THEN [tx EXCEPT !.inner = decode_tx(tx).val] ELSE tx
  /\ UNCHANGED wire

\* tx.decode_tx()
DecodeTx ==
  /\ result' = [op |-> "decode_tx", out |-> decode_tx(tx)]
  /\ calls' = Push(Call(tx.module, tx.action, tx.input, decode_tx(tx),
                        "decode_tx", tx.nonce, tx.chain_id))
  /\ UNCHANGED <<tx, wire>>

\* tx.set_chain_id(c)
SetChainId ==
  /\ \E c \in ChainIdValues : tx' = [tx EXCEPT !.chain_id = c]
  /\ UNCHANGED <<wire, result, calls>>

\* TxGoat { nonce: n, ..tx }
SetNonce ==
  /\ \E n \in NonceValues : tx' = [tx EXCEPT !.nonce = n]
  /\ UNCHANGED <<wire, result, calls>>

\* tx.encode(out)
RlpEncode ==
  /\ wire' = [fmt |-> "rlp", bytes |-> rlp_encode(tx)]
  /\ UNCHANGED <<tx, result, calls>>

\* tx.rlp_encode_fields(out)
RlpEncodeFields ==
  /\ wire' = [fmt |-> "fields", bytes |-> rlp_encode_fields(tx)]
  /\ UNCHANGED <<tx, result, calls>>

\* tx.encode_for_signing(out)
EncodeForSigning ==
  /\ wire' = [fmt |-> "signing", bytes |-> encode_for_signing(tx)]
  /\ UNCHANGED <<tx, result, calls>>

\* what the return r of the function that invokes decode_goat_tx
\* (rlp_decode_fields, deserialize_as) shows of the outcome of the invocation:
\* the inner value of the envelope it returned, or the error it passed on (by
\* ?, or inside serde's custom error)
InnerOutcome(r) ==
  IF r.st = "Ok" THEN Ok(r.val.inner)
  ELSE IF r.st = "Err" /\ r.err.kind = "SerdeCustom" THEN Err(r.err.cause)
  ELSE r

\* the record of the invocation of decode_goat_tx that a decoder makes once
\* it has read the fields f, if it gets that far: the fields it passes, and
\* the outcome as its return r shows it
CallOf(f, r, via, chain_id) ==
  IF f.st = "Ok"
  THEN Push(Call(f.val.module, f.val.action, f.val.input, InnerOutcome(r),
                 via, f.val.nonce, chain_id))
  ELSE calls

\* the fields that rlp_decode reads from buf before it calls decode_goat_tx
ListFields(h) ==
  IF h.st = "Ok" /\ h.val.list THEN ParseFields(h.rest)
  ELSE Err(RlpError("UnexpectedString"))

FieldsOf(buf) == ListFields(Header_decode(buf))

\* what rlp_decode_fields returns to rlp_decode, before rlp_decode compares
\* the length the fields took with the length the header announced
ListReturn(h) ==
  IF h.st = "Ok" /\ h.val.list THEN rlp_decode_fields(h.rest)
  ELSE Err(RlpError("UnexpectedString"))

FieldsReturnOf(buf) == ListReturn(Header_decode(buf))

\* TxGoat::decode(&mut wire); its invocation of decode_goat_tx is the one in
\* rlp_decode_fields
RlpDecode ==
  /\ wire.fmt \in {"rlp", "signing", "fields"}
  /\ result' = [op |-> "rlp_decode", from |-> wire.bytes,
                out |-> rlp_decode(wire.bytes)]
  /\ calls' = CallOf(FieldsOf(wire.bytes), FieldsReturnOf(wire.bytes),
                     "rlp_decode_fields", GOAT_CHAIN_ID)
  /\ UNCHANGED <<tx, wire>>

\* what the caller of rlp_decode_fields gets: the envelope or the error
Returned(this) == IF this.st = "Ok" THEN Ok(this.val) ELSE this

\* TxGoat::rlp_decode_fields(&mut wire)
RlpDecodeFields ==
  /\ wire.fmt \in {"rlp", "signing", "fields"}
  /\ result' = [op |-> "rlp_decode_fields", from |-> wire.bytes,
                out |-> Returned(rlp_decode_fields(wire.bytes))]
  /\ calls' = CallOf(ParseFields(wire.bytes), rlp_decode_fields(wire.bytes),
                     "rlp_decode_fields", GOAT_CHAIN_ID)
  /\ UNCHANGED <<tx, wire>>

\* serde_bincode_compat::TxGoat::serialize_as(&tx, bincode)
BincodeSerialize ==
  /\ wire' = [fmt |-> "bincode", bytes |-> serialize_as(tx)]
  /\ UNCHANGED <<tx, result, calls>>

\* the fields that deserialize_as reads from buf before it calls decode_tx
BincodeFieldsOf(buf) ==
  IF Len(buf) >= 18
     /\ u64_at_most(u64_from_le_bytes(SubSeq(buf, 11, 18)), Len(buf) - 18)
  THEN Step([module |-> buf[1], action |-> buf[2],
             nonce |-> u64_from_le_bytes(SubSeq(buf, 3, 10)),
             input |-> SubSeq(buf, 19,
                              18 + u64_small(u64_from_le_bytes(SubSeq(buf, 11, 18))))],
            SubSeq(buf, 19 + u64_small(u64_from_le_bytes(SubSeq(buf, 11, 18))),
                   Len(buf)))
  ELSE Err(BincodeError("UnexpectedEnd"))

\* serde_bincode_compat::TxGoat::deserialize_as(bincode)
BincodeDeserialize ==
  /\ wire.fmt = "bincode"
  /\ result' = [op |-> "deserialize_as", from |-> wire.bytes,
                out |-> deserialize_as(wire.bytes)]
  /\ calls' = CallOf(BincodeFieldsOf(wire.bytes), deserialize_as(wire.bytes),
                     "deserialize_as", 0)
  /\ UNCHANGED <<tx, wire>>

\* the caller goes on with the envelope a decoder returned
TakeDecoded ==
  /\ result.op \in {"rlp_decode", "rlp_decode_fields", "deserialize_as"}
  /\ result.out.st = "Ok"
  /\ tx' = result.out.val
  /\ UNCHANGED <<wire, result, calls>>

Next ==
  \/ DecodeTx
  \/ SetChainId
  \/ RlpEncode
  \/ RlpEncodeFields
  \/ EncodeForSigning
  \/ RlpDecode
  \/ RlpDecodeFields
  \/ BincodeSerialize
  \/ BincodeDeserialize
  \/ TakeDecoded

Spec == Init /\ [][Next]_vars

(***************************************************************************)
(* The same envelope operations with the nonce rewritten between them,     *)
(* over the base payloads under every (module, action) pair: the           *)
(* specification of the properties that compare two invocations, with a    *)
(* window of two places.                                                   *)
(***************************************************************************)
InitCalls ==
  /\ \E m \in ModuleValues, a \in ActionValues, p \in BasePayloads :
       tx = [TxGoat_default EXCEPT !.module = m, !.action = a, !.input = p]
  /\ wire = NoWire
  /\ result = NoResult
  /\ calls = <<NoCall, NoCall>>

NextCalls ==
  \/ DecodeTx
  \/ SetChainId
  \/ SetNonce
  \/ RlpEncode
  \/ RlpDecode
  \/ BincodeSerialize
  \/ BincodeDeserialize
  \/ TakeDecoded

SpecCalls == InitCalls /\ [][NextCalls]_vars

(***************************************************************************)
(* Properties.                                                             *)
(***************************************************************************)
\* the routing table as the specification states it
RoutingTable ==
  (<<1, 1>> :> "DepositTx") @@ (<<1, 2>> :> "Cancel2Tx") @@ (<<1, 3>> :> "PaidTx")
  @@ (<<1, 4>> :> "NewBtcBlockTx") @@ (<<2, 1>> :> "CompleteUnlockTx")
  @@ (<<2, 2>> :> "DistributeRewardTx")

Routed(c) == <<c.module, c.action>> \in DOMAIN RoutingTable
RouteOf(c) == RoutingTable[<<c.module, c.action>>]

\* the recorded invocations of decode_goat_tx
CallSet == {calls[i] : i \in 1..Len(calls)} \ {NoCall}

\* C1: whenever decode_goat_tx succeeds, (module, action) is one of the six
\* pairs of the routing table and the tag of the value is the one the table
\* gives for that pair, whatever the payload is.
C1_TagFixedByRoute ==
  \A c \in CallSet :
    c.out.st = "Ok" => Routed(c) /\ c.out.val.tag = RouteOf(c)

\* C1 witness: a successful decode under (2, 2) that gave a DistributeRewardTx
C1_Witness ==
  \E c \in CallSet :
    /\ c.module = 2 /\ c.action = 2
    /\ c.out.st = "Ok" /\ c.out.val.tag = "DistributeRewardTx"

\* the bytes an unsigned field denotes fit a number of the checker
Small(bytes) ==
  /\ \A j \in 1..(Len(bytes) - 4) : bytes[j] = 0
  /\ bytes[Len(bytes) - 3] < 128

\* the number a small unsigned field holds
LimbsNat(limbs) == limbs[1] + 65536 * limbs[2]

\* an unsigned field holds the big-endian value of the bytes
IsBe(field, bytes) ==
  /\ 2 * Len(field) = Len(bytes)
  /\ \A k \in 1..Len(field) : field[k] \in 0..65535
  /\ to_be_bytes(field) = bytes
  /\ Small(bytes) => LimbsNat(field) = BeNat(bytes)

\* the fields of a decoded value against the absolute offsets of the payload
FieldsAt(v, b) ==
  CASE v.tag = "NewBtcBlockTx" ->
         v.tx.hash = Slice(b, 4, 36)
    [] v.tag = "Cancel2Tx" ->
         IsBe(v.tx.id, Slice(b, 4, 36))
    [] v.tag = "PaidTx" ->
         /\ IsBe(v.tx.id, Slice(b, 4, 36))
         /\ v.tx.tx_id = Slice(b, 36, 68)
         /\ IsBe(v.tx.tx_out, Slice(b, 96, 100))
         /\ IsBe(v.tx.amount, Slice(b, 100, 132))
    [] v.tag = "DepositTx" ->
         /\ v.tx.tx_id = Slice(b, 4, 36)
         /\ IsBe(v.tx.tx_out, Slice(b, 64, 68))
         /\ v.tx.target = Slice(b, 80, 100)
         /\ IsBe(v.tx.amount, Slice(b, 100, 132))
         /\ IsBe(v.tx.tax, Slice(b, 132, 164))
    [] v.tag = "CompleteUnlockTx" ->
         /\ IsBe(v.tx.id, Slice(b, 28, 36))
         /\ v.tx.recipient = Slice(b, 48, 68)
         /\ v.tx.token = Slice(b, 80, 100)
         /\ IsBe(v.tx.amount, Slice(b, 100, 132))
    [] v.tag = "DistributeRewardTx" ->
         /\ IsBe(v.tx.id, Slice(b, 28, 36))
         /\ v.tx.recipient = Slice(b, 48, 68)
         /\ IsBe(v.tx.goat, Slice(b, 68, 100))
         /\ IsBe(v.tx.gas_reward, Slice(b, 100, 132))

\* the size and the selector the specification's table gives each variant
TableSize ==
  [v \in Variants |-> CASE v \in {"NewBtcBlockTx", "Cancel2Tx"} -> 36
                        [] v = "DepositTx" -> 164
                        [] OTHER -> 132]
TableSelector ==
  [v \in Variants |->
     CASE v = "NewBtcBlockTx"      -> <<148, 244, 144, 189>>
       [] v = "Cancel2Tx"          -> <<193, 157, 211, 32>>
       [] v = "PaidTx"             -> <<182, 112, 171, 94>>
       [] v = "DepositTx"          -> <<144, 65, 131, 203>>
       [] v = "CompleteUnlockTx"   -> <<0, 171, 165, 26>>
       [] v = "DistributeRewardTx" -> <<189, 159, 173, 181>>]

\* the payload of a call has the size and the selector of the call's route
WellFormed(c) ==
  /\ Routed(c)
  /\ Len(c.input) = TableSize[RouteOf(c)]
  /\ Slice(c.input, 0, 4) = TableSelector[RouteOf(c)]

\* C2: a payload of exactly SIZE bytes that starts with the selector decodes,
\* and every field holds the big-endian value of the bytes at its offset.
C2_FieldsAtOffsets ==
  \A c \in CallSet :
    WellFormed(c) =>
      /\ c.out.st = "Ok"
      /\ c.out.val.tag = RouteOf(c)
      /\ FieldsAt(c.out.val, c.input)

\* C2 witness: the deposit vector of the tests decoded, with its amount
\* 0x157f7f97, its tax 100 and its tx_out 0x2a71a778
C2_Witness ==
  \E c \in CallSet :
    /\ WellFormed(c) /\ c.input = DepositVector
    /\ c.out.st = "Ok"
    /\ LimbsNat(c.out.val.tx.amount) = 360677271
    /\ LimbsNat(c.out.val.tx.tax) = 100
    /\ LimbsNat(c.out.val.tx.tx_out) = 712091512

\* C3: a payload whose length is not the SIZE of the call's variant fails with
\* ListLengthMismatch { expected: SIZE, got: length }, whatever it holds.
C3_LengthMismatch ==
  \A c \in CallSet :
    Routed(c) /\ Len(c.input) # TableSize[RouteOf(c)] =>
      c.out = Err(ListLengthMismatch(TableSize[RouteOf(c)], Len(c.input)))

\* C3 witness: a payload one byte too long whose selector is wrong as well
C3_Witness ==
  \E c \in CallSet :
    /\ Routed(c) /\ Len(c.input) = TableSize[RouteOf(c)] + 1
    /\ Slice(c.input, 0, 4) # TableSelector[RouteOf(c)]
    /\ c.out.st = "Err" /\ c.out.err.kind = "ListLengthMismatch"

\* the selector-mismatch errors of the six decoders
SelectorErrors ==
  {Custom(m) : m \in {"not a newBlockHash tx", "not a cancel2 tx", "not a paid tx",
                      "not a deposit tx", "not a completeUnlock tx"}}

\* C4: a payload of exactly SIZE bytes whose first 4 bytes are not the selector
\* fails with the decoder's selector error, which is no length-mismatch error,
\* and yields no value.
C4_SelectorMismatch ==
  \A c \in CallSet :
    /\ Routed(c)
    /\ Len(c.input) = TableSize[RouteOf(c)]
    /\ Slice(c.input, 0, 4) # TableSelector[RouteOf(c)]
    => /\ c.out.st = "Err"
       /\ c.out.err \in SelectorErrors
       /\ c.out.err.kind # "ListLengthMismatch"

\* C4 witness: a payload of the right size whose selector differs from the
\* variant's in its last byte only
C4_Witness ==
  \E c \in CallSet :
    /\ Routed(c) /\ Len(c.input) = TableSize[RouteOf(c)]
    /\ Slice(c.input, 0, 3) = SubSeq(TableSelector[RouteOf(c)], 1, 3)
    /\ c.input[4] # TableSelector[RouteOf(c)][4]
    /\ c.out.st = "Err"

\* C5: an action outside 1..4 under module 1 and an action outside 1..2 under
\* module 2 fail with the unknown-action error, every other module fails with
\* the unknown-module error, which is a different one, whatever the payload is.
C5_UnknownRoute ==
  \A c \in CallSet :
    /\ c.module = 1 /\ c.action \notin 1..4
         => c.out = Err(Custom("Unknown action for Bridge module"))
    /\ c.module = 2 /\ c.action \notin 1..2
         => c.out = Err(Custom("Unknown action for Locking module"))
    /\ c.module \notin {1, 2}
         => /\ c.out = Err(Custom("Unknown module for TxGoat"))
            /\ c.out.err.msg \notin {"Unknown action for Bridge module",
                                     "Unknown action for Locking module"}

\* C5 witness: module 99 with a payload that decodes under a known route
C5_Witness ==
  \E c \in CallSet :
    /\ c.module = 99 /\ c.action = 1 /\ c.input = DepositVector
    /\ c.out.st = "Err"

\* the inner values a state holds: the envelope's, the decoded ones
InnerSet ==
  {tx.inner}
  \cup {c.out.val : c \in {d \in CallSet : d.out.st = "Ok"}}
  \cup (IF result.op \in {"rlp_decode", "rlp_decode_fields", "deserialize_as"} /\ result.out.st = "Ok"
        THEN {result.out.val.inner} ELSE {})

\* C6: deposit() and withdraw() are never both present; exactly deposit() is
\* present for DepositTx, exactly withdraw() for DistributeRewardTx and for
\* CompleteUnlockTx of the native token, and neither for NewBtcBlockTx,
\* Cancel2Tx, PaidTx and CompleteUnlockTx of another token.
C6_DepositWithdrawExclusive ==
  \A x \in InnerSet :
    LET dep == TxGoatInner_deposit(x).some
        wd  == TxGoatInner_withdraw(x).some
    IN  /\ ~(dep /\ wd)
        /\ x.tag = "DepositTx" => dep /\ ~wd
        /\ x.tag = "DistributeRewardTx" => wd /\ ~dep
        /\ x.tag = "CompleteUnlockTx" /\ x.tx.token = NATIVE_TOKEN => wd /\ ~dep
        /\ x.tag = "CompleteUnlockTx" /\ x.tx.token # NATIVE_TOKEN => ~wd /\ ~dep
        /\ x.tag \in {"NewBtcBlockTx", "Cancel2Tx", "PaidTx"} => ~wd /\ ~dep

\* C6 witness: a decoded CompleteUnlockTx of a token other than the native
\* one, for which both are absent
C6_Witness ==
  \E c \in CallSet :
    /\ c.out.st = "Ok" /\ c.out.val.tag = "CompleteUnlockTx"
    /\ c.out.val.tx.token # NATIVE_TOKEN
    /\ ~TxGoatInner_deposit(c.out.val).some
    /\ ~TxGoatInner_withdraw(c.out.val).some

\* C7: the Mint carries the value's own fields, which are the bytes of the
\* payload: DepositTx gives deposit = {target, amount, tax}, DistributeRewardTx
\* gives withdraw = {recipient, gas_reward, 0} and not goat, CompleteUnlockTx of
\* the native token gives withdraw = {recipient, amount, 0}.
C7_MintFields ==
  \A c \in CallSet :
    c.out.st = "Ok" =>
      LET v == c.out.val
          dep == TxGoatInner_deposit(v)
          wd == TxGoatInner_withdraw(v)
      IN  /\ v.tag = "DepositTx" =>
               /\ dep = Some(Mint(v.tx.target, v.tx.amount, v.tx.tax))
               /\ dep.val.address = Slice(c.input, 80, 100)
               /\ to_be_bytes(dep.val.amount) = Slice(c.input, 100, 132)
               /\ to_be_bytes(dep.val.tax) = Slice(c.input, 132, 164)
          /\ v.tag = "DistributeRewardTx" =>
               /\ wd = Some(Mint(v.tx.recipient, v.tx.gas_reward, U256_ZERO))
               /\ wd.val.address = Slice(c.input, 48, 68)
               /\ to_be_bytes(wd.val.amount) = Slice(c.input, 100, 132)
               /\ to_be_bytes(wd.val.tax) = [j \in 1..32 |-> 0]
          /\ v.tag = "CompleteUnlockTx" /\ v.tx.token = NATIVE_TOKEN =>
               /\ wd = Some(Mint(v.tx.recipient, v.tx.amount, U256_ZERO))
               /\ wd.val.address = Slice(c.input, 48, 68)
               /\ to_be_bytes(wd.val.amount) = Slice(c.input, 100, 132)
               /\ to_be_bytes(wd.val.tax) = [j \in 1..32 |-> 0]

\* C7 witness: the reward vector of the tests, goat = 1 and gas_reward = 100,
\* whose withdraw() is Mint { recipient, 100, 0 }
C7_Witness ==
  \E c \in CallSet :
    /\ c.input = RewardVector /\ c.out.st = "Ok"
    /\ LimbsNat(c.out.val.tx.goat) = 1
    /\ TxGoatInner_withdraw(c.out.val).some
    /\ LimbsNat(TxGoatInner_withdraw(c.out.val).val.amount) = 100
    /\ TxGoatInner_withdraw(c.out.val).val.address = Slice(RewardVector, 48, 68)
    /\ TxGoatInner_withdraw(c.out.val).val.tax = U256_from(0)

\* a valid envelope: its (module, action) routes and its payload decodes
ValidEnvelope(x) == decode_goat_tx(x.module, x.action, x.input).st = "Ok"

\* the last operation decoded the RLP encoding of the envelope tx
RoundTripped ==
  /\ result.op = "rlp_decode"
  /\ result.from = rlp_encode(tx)
  /\ ValidEnvelope(tx)

\* C8 as stated: decoding the encoding of a valid envelope gives an envelope
\* equal to it in all fields.
C8_Original ==
  RoundTripped => result.out.st = "Ok" /\ result.out.val = tx

\* C8 amended: decoding the encoding of a valid envelope x succeeds and gives
\* x's module, action, nonce and payload, the inner value that x's payload
\* decodes to and the chain id GOAT_CHAIN_ID; it equals x when x's inner value
\* is the decode of its payload and x's chain_id is GOAT_CHAIN_ID.
C8_RoundTrip ==
  RoundTripped =>
    /\ result.out.st = "Ok"
    /\ result.out.val.module = tx.module
    /\ result.out.val.action = tx.action
    /\ result.out.val.nonce = tx.nonce
    /\ result.out.val.input = tx.input
    /\ Ok(result.out.val.inner) = decode_goat_tx(tx.module, tx.action, tx.input)
    /\ result.out.val.chain_id = GOAT_CHAIN_ID
    /\ (Ok(tx.inner) = decode_goat_tx(tx.module, tx.action, tx.input)
          /\ tx.chain_id = GOAT_CHAIN_ID)
         => result.out.val = tx

\* C8 witness: a decoded envelope with a two-byte nonce and a 164-byte payload,
\* encoded and decoded again to an equal envelope
C8_Witness ==
  /\ RoundTripped
  /\ tx.nonce = u64_from(1000) /\ Len(tx.input) = 164
  /\ tx.chain_id = GOAT_CHAIN_ID /\ tx.inner.tag = "DepositTx"
  /\ result.out.st = "Ok" /\ result.out.val = tx

\* C9: when the inner decode of an envelope's fields fails, the RLP decode
\* returns that error and deserialize_as returns serde's error made of it; an
\* envelope that either returns holds the value its own payload decodes to.
C9_InnerFailureRejects ==
  /\ result.op = "rlp_decode" =>
       LET f == FieldsOf(result.from)
       IN  f.st = "Ok" /\ decode_goat_tx(f.val.module, f.val.action,
                                         f.val.input).st # "Ok"
             => result.out = decode_goat_tx(f.val.module, f.val.action,
                                            f.val.input)
  /\ result.op = "deserialize_as" =>
       LET f == BincodeFieldsOf(result.from)
       IN  f.st = "Ok" /\ decode_goat_tx(f.val.module, f.val.action,
                                         f.val.input).st # "Ok"
             => /\ result.out.st = "Err"
                /\ result.out.err.kind = "SerdeCustom"
                /\ Err(result.out.err.cause)
                     = decode_goat_tx(f.val.module, f.val.action, f.val.input)
  /\ result.op \in {"rlp_decode", "rlp_decode_fields", "deserialize_as"} /\ result.out.st = "Ok" =>
       Ok(result.out.val.inner)
         = decode_goat_tx(result.out.val.module, result.out.val.action,
                          result.out.val.input)

\* C9 witness: the RLP decode of an envelope whose 164-byte payload has a
\* damaged selector failed with the deposit decoder's selector error
C9_Witness ==
  /\ result.op = "rlp_decode"
  /\ FieldsOf(result.from).st = "Ok"
  /\ Len(FieldsOf(result.from).val.input) = 164
  /\ result.out = Err(Custom("not a deposit tx"))

C11_CachedAfterDecodeTx ==
  result.op = "decode_tx" /\ result.out.st = "Ok"
    => /\ tx.inner = result.out.val
       /\ TxGoat_sender(tx) = TxGoatInner_sender(result.out.val)
       /\ TxGoat_to(tx) = TxGoatInner_to(result.out.val)
       /\ TxGoat_deposit(tx) = TxGoatInner_deposit(result.out.val)
       /\ TxGoat_withdraw(tx) = TxGoatInner_withdraw(result.out.val)

\* the base fees that effective_gas_price is asked with
BaseFeeValues == {None, Some(0), Some(7), Some(1000)}

\* C12: in every reachable state the transaction-contract accessors of the
\* envelope return fixed values: gas limit, gas price, max fee, priority fee,
\* effective gas price (for any base fee) and value are zero; access list,
\* blob hashes and authorization list are absent; is_create is false; kind()
\* is a call to the contract address of the inner value.
C12_FixedAccessors ==
  /\ TxGoat_gas_limit(tx) = 0
  /\ TxGoat_gas_price(tx) = Some(0)
  /\ TxGoat_max_fee_per_gas(tx) = 0
  /\ TxGoat_max_priority_fee_per_gas(tx) = Some(0)
  /\ \A b \in BaseFeeValues : TxGoat_effective_gas_price(tx, b) = 0
  /\ TxGoat_value(tx) = U256_from(0)
  /\ ~TxGoat_access_list(tx).some
  /\ ~TxGoat_blob_versioned_hashes(tx).some
  /\ ~TxGoat_authorization_list(tx).some
  /\ ~TxGoat_is_create(tx)
  /\ TxGoat_kind(tx).kind = "Call"
  /\ TxGoat_kind(tx).to = TxGoat_to(tx)
  /\ TxGoat_kind(tx).to \in {BITCOINT_CONTRACT, BRIDGE_CONTRACT, LOCKING_CONTRACT}

\* C12 witness: an envelope with a non-zero nonce, a payload and a decoded
\* reward value, whose kind() is a call to the locking contract
C12_Witness ==
  /\ tx.nonce # u64_from(0)
  /\ tx.input # <<>>
  /\ tx.inner.tag = "DistributeRewardTx"
  /\ TxGoat_kind(tx) = TxKind_Call(LOCKING_CONTRACT)

\* the last operation deserialized the bincode serialization of the envelope tx
BincodeRoundTripped ==
  /\ result.op = "deserialize_as"
  /\ result.from = serialize_as(tx)

\* C13: deserializing the bincode serialization of an envelope succeeds and
\* gives an envelope equal to it in module, action, nonce, payload, inner value
\* and chain_id.
C13_BincodeRoundTrip ==
  BincodeRoundTripped => result.out.st = "Ok" /\ result.out.val = tx

\* C14: decode_tx leaves module, action, nonce, payload, inner value and
\* chain_id of the envelope as they were, on success and on failure, and
\* returns what the preceding decode_tx on the envelope returned.
C14_DecodeTxIdempotent ==
  [][DecodeTx =>
       /\ tx' = tx
       /\ result.op = "decode_tx" => result'.out = result.out
       /\ calls[1] # NoCall /\ calls[1].via = "decode_tx"
            /\ calls[1].module = tx.module /\ calls[1].action = tx.action
            /\ calls[1].input = tx.input
            => calls'[1].out = calls[1].out]_vars

\* C14 witness: decode_tx ran twice on an envelope with a deposit payload and
\* returned the same decoded value both times, and the envelope still holds
\* the inner value it was built with
C14_Witness ==
  /\ Len(calls) = 2 /\ calls[2] # NoCall
  /\ calls[1].via = "decode_tx" /\ calls[2].via = "decode_tx"
  /\ calls[1].out.st = "Ok" /\ calls[1].out = calls[2].out
  /\ calls[1].out.val.tag = "DepositTx"
  /\ result.op = "decode_tx" /\ result.out = calls[1].out
  /\ tx.inner = TxGoatInner_default

\* the envelope tx is the one that the last RLP decode returned
Decoded ==
  /\ result.op = "rlp_decode"
  /\ result.out.st = "Ok"
  /\ result.out.val = tx

\* C15: no operation on a successfully decoded envelope (decode_tx,
\* set_chain_id, encoding, serialization, a further decode of its encoding)
\* changes its module, action, nonce, payload or chain_id, and its chain_id
\* stays the value chain_id() reports, in the default build and in the
\* build with the feature "goat-testnet".
C15_FrozenAfterDecode ==
  [][Decoded /\ ~TakeDecoded =>
       /\ tx'.module = tx.module
       /\ tx'.action = tx.action
       /\ tx'.nonce = tx.nonce
       /\ tx'.input = tx.input
       /\ tx'.chain_id = tx.chain_id
       /\ \A goat_testnet \in BOOLEAN :
            Some(tx'.chain_id) = TxGoat_chain_id(tx', goat_testnet)]_vars

\* the errors of the try_from conversions of fixed-offset slices
DefensiveErrors ==
  {Custom(m) : m \in {"Invalid method ID format", "Failed to decode id",
                      "Failed to decode tx_out", "Failed to decode amount",
                      "Failed to decode tax", "Failed to decode goat",
                      "Failed to decode gas_reward"}}

\* the payload with its last byte changed
LastByteChanged(p) == [p EXCEPT ![Len(p)] = (p[Len(p)] + 1) % 256]

\* C16: decoding never panics.  Every invocation of decode_goat_tx and every
\* decoding operation returns a value or an error, for buffers shorter than,
\* equal to and longer than SIZE; no returned error is one of the defensive
\* conversion errors; and the reads reach the last byte of a SIZE-byte buffer:
\* changing that byte changes the decoded value and still does not panic.
C16_NeverPanics ==
  /\ \A c \in CallSet :
       /\ c.out.st \in {"Ok", "Err"}
       /\ c.out.st = "Err" => c.out.err \notin DefensiveErrors
       /\ c.out.st = "Ok" =>
            /\ Len(c.input) = TableSize[RouteOf(c)]
            /\ decode_goat_tx(c.module, c.action, LastByteChanged(c.input)).st = "Ok"
            /\ decode_goat_tx(c.module, c.action, LastByteChanged(c.input)) # c.out
  /\ result.op # "none" =>
       /\ result.out.st \in {"Ok", "Err"}
       /\ result.out.st = "Err" /\ result.op # "deserialize_as"
            => result.out.err \notin DefensiveErrors

\* C16 witness: a payload one byte shorter than the 132 bytes of the paid
\* decoder, with the right selector, was rejected with the length error
C16_Witness ==
  /\ calls[1] # NoCall
  /\ calls[1].module = BIRDGE_MODULE /\ calls[1].action = BRIDGE_PAID_ACTION
  /\ Len(calls[1].input) = PaidTx_SIZE - 1
  /\ Slice(calls[1].input, 0, 4) = PaidTx_METHOD_ID
  /\ calls[1].out = Err(ListLengthMismatch(PaidTx_SIZE, PaidTx_SIZE - 1))

\* the positions (from 0) of the padding bytes of a payload of variant v: the
\* 28 leading bytes of a tx_out word, the 12 leading bytes of an address word
\* and the 24 leading bytes of a 64-bit id word
Padding(v) ==
  CASE v = "DepositTx"          -> (36..63) \cup (68..79)
    [] v = "PaidTx"             -> 68..95
    [] v = "CompleteUnlockTx"   -> (4..27) \cup (36..47) \cup (68..79)
    [] v = "DistributeRewardTx" -> (4..27) \cup (36..47)
    [] OTHER                    -> {}

\* the payload p of variant v with every padding byte set to b
WithPadding(p, v, b) ==
  [j \in 1..Len(p) |-> IF (j - 1) \in Padding(v) THEN b ELSE p[j]]

\* the payload p of variant v with its first padding byte set to b
WithFirstPadding(p, v, b) ==
  [j \in 1..Len(p) |->
     IF (j - 1) \in Padding(v) /\ \A k \in Padding(v) : j - 1 <= k
     THEN b ELSE p[j]]

\* the bytes written into the padding
PadBytes == {0, 1, 255}

\* C17: a payload that decodes, and the payloads that differ from it only in
\* padding bytes (all of them, or the first one), decode to equal inner values.
C17_PaddingIgnored ==
  \A c \in CallSet :
    c.out.st = "Ok" =>
      \A b \in PadBytes :
        /\ decode_goat_tx(c.module, c.action,
                          WithPadding(c.input, RouteOf(c), b)) = c.out
        /\ decode_goat_tx(c.module, c.action,
                          WithFirstPadding(c.input, RouteOf(c), b)) = c.out

\* C17 witness: a complete-unlock payload whose padding bytes are not zero
\* decoded to the value that the payload with zeroed padding decodes to, and
\* the two payloads differ
C17_Witness ==
  /\ calls[1] # NoCall
  /\ calls[1].out.st = "Ok"
  /\ calls[1].out.val.tag = "CompleteUnlockTx"
  /\ \A k \in Padding("CompleteUnlockTx") : calls[1].input[k + 1] # 0
  /\ WithPadding(calls[1].input, "CompleteUnlockTx", 0) # calls[1].input
  /\ decode_goat_tx(calls[1].module, calls[1].action,
                    WithPadding(calls[1].input, "CompleteUnlockTx", 0))
       = calls[1].out

\* the sender and the destination that the claim gives for each variant tag
SenderTable ==
  [v \in Variants |-> IF v \in {"CompleteUnlockTx", "DistributeRewardTx"}
                      THEN LOCKING_EXECUTOR ELSE RELAYER_EXECUTOR]
DestinationTable ==
  [v \in Variants |-> CASE v = "NewBtcBlockTx" -> BITCOINT_CONTRACT
                        [] v \in {"Cancel2Tx", "PaidTx", "DepositTx"} -> BRIDGE_CONTRACT
                        [] OTHER -> LOCKING_CONTRACT]

\* the selected variant's own sender() and contract()
VariantSender(inner) ==
  CASE inner.tag = "NewBtcBlockTx"      -> NewBtcBlockTx_sender(inner.tx)
    [] inner.tag = "Cancel2Tx"          -> Cancel2Tx_sender(inner.tx)
    [] inner.tag = "PaidTx"             -> PaidTx_sender(inner.tx)
    [] inner.tag = "DepositTx"          -> DepositTx_sender(inner.tx)
    [] inner.tag = "CompleteUnlockTx"   -> CompleteUnlockTx_sender(inner.tx)
    [] inner.tag = "DistributeRewardTx" -> DistributeRewardTx_sender(inner.tx)
VariantContract(inner) ==
  CASE inner.tag = "NewBtcBlockTx"      -> NewBtcBlockTx_contract(inner.tx)
    [] inner.tag = "Cancel2Tx"          -> Cancel2Tx_contract(inner.tx)
    [] inner.tag = "PaidTx"             -> PaidTx_contract(inner.tx)
    [] inner.tag = "DepositTx"          -> DepositTx_contract(inner.tx)
    [] inner.tag = "CompleteUnlockTx"   -> CompleteUnlockTx_contract(inner.tx)
    [] inner.tag = "DistributeRewardTx" -> DistributeRewardTx_contract(inner.tx)

\* the tagged values in the state: decoded ones and the envelope's own
TaggedValues ==
  {c.out.val : c \in {d \in CallSet : d.out.st = "Ok"}} \cup {tx.inner}

\* C18: sender() and to() of a tagged value are fixed by its tag, whatever its
\* fields hold: the relayer for the four bridge variants and the locking
\* executor for the two locking variants; the Bitcoin contract for
\* NewBtcBlockTx, the bridge contract for Cancel2Tx, PaidTx and DepositTx, the
\* locking contract for the two locking variants; and they are the selected
\* variant's own sender() and contract().
C18_SenderAndDestinationByTag ==
  \A x \in TaggedValues :
    /\ TxGoatInner_sender(x) = SenderTable[x.tag]
    /\ TxGoatInner_to(x) = DestinationTable[x.tag]
    /\ TxGoatInner_sender(x) = VariantSender(x)
    /\ TxGoatInner_to(x) = VariantContract(x)

\* C18 witness: the envelope holds the default NewBtcBlockTx value while a
\* NewBtcBlockTx with another hash was decoded from its payload; both report
\* the relayer as sender and the Bitcoin contract as destination
C18_Witness ==
  /\ calls[1] # NoCall
  /\ calls[1].out.st = "Ok"
  /\ calls[1].out.val.tag = "NewBtcBlockTx"
  /\ tx.inner.tag = "NewBtcBlockTx"
  /\ calls[1].out.val # tx.inner
  /\ TxGoatInner_sender(calls[1].out.val) = RELAYER_EXECUTOR
  /\ TxGoatInner_to(calls[1].out.val) = BITCOINT_CONTRACT
  /\ TxGoat_sender(tx) = RELAYER_EXECUTOR
  /\ TxGoat_to(tx) = BITCOINT_CONTRACT

=============================================================================
